---- MODULE Spec2Model ----
(***************************************************************************)
(* Model of process_episode (src/streamlit_app.py), the merge orchestrator *)
(* of Sub-vid-merger, with the helpers it calls: run_ff, good, the three   *)
(* hard-subtitle strategies, the two soft-subtitle strategies and the name *)
(* sanitisation.  The external toolchain (ffmpeg, ffprobe), the file       *)
(* system and the caller's log sink are the environment: every outcome     *)
(* they can produce is a nondeterministic input of the step that meets it. *)
(*                                                                         *)
(* The job is run twice in lock step: `job` is the run under study, `twin` *)
(* the same job in the same environment, except that at most one encode or *)
(* mux invocation that exits nonzero in `job` times out in `twin`.         *)
(*                                                                         *)
(* create_ass, the dual-style subtitle generator, is modelled on its own   *)
(* (variable `ass`, specification SpecAss): its layout arithmetic and its  *)
(* loop over the parsed entries.                                           *)
(***************************************************************************)
EXTENDS Integers, Sequences, FiniteSets, TLC

VARIABLES
    video_bytes,   \* size in bytes of the video payload (argument)
    srt_bytes,     \* size in bytes of the subtitle payload (argument)
    ep_name,       \* display name, a sequence of characters (argument)
    merge_type,    \* "hard" or "soft" (argument)
    log_fn,        \* "None" or "fn": whether a log sink was supplied (argument)
    filters,       \* what check_filters() reports: [subtitles, ass]
    job,           \* the run of process_episode: locals, workspace, history
    twin,          \* the second run, for the timeout / nonzero-exit comparison
    swapped,       \* 0, or the attempt whose nonzero exit is a timeout in twin
    ass            \* a call of create_ass: arguments, locals, events, result

inputs == <<video_bytes, srt_bytes, ep_name, merge_type, log_fn, filters>>
vars == <<video_bytes, srt_bytes, ep_name, merge_type, log_fn, filters,
          job, twin, swapped, ass>>

----------------------------------------------------------------------------
(* Bounds of the model *)

MaxEntries == 2      \* parsed subtitle entries range over 0..MaxEntries
MaxNameLen == 2      \* display names have at most this many characters

(* Program constants *)

MinVideoBytes  == 1000     \* os.path.getsize(v_path) < 1000
MinSubBytes    == 5        \* os.path.getsize(s_path) < 5
MinOutputBytes == 10000    \* os.path.getsize(path) > 10000
MinEntryBytes  == 29       \* shortest text parse_srt turns into one entry

(* Inputs *)

VideoSizes == {MinVideoBytes - 1, MinVideoBytes}
SrtSizes   == {MinSubBytes - 1, MinSubBytes, MinEntryBytes + 11}
OutSizes   == {0, MinOutputBytes, MinOutputBytes + 1}

\* "/" stands for the characters of the class [<>:"/\|?*], "a" for any other
Chars  == {"a", "/", "_"}
Unsafe == {"/"}

RECURSIVE SeqsUpTo(_, _)
SeqsUpTo(S, n) ==
    IF n = 0 THEN {<<>>}
    ELSE LET shorter == SeqsUpTo(S, n - 1)
         IN  shorter \cup {Append(s, c) : s \in shorter, c \in S}

Names == SeqsUpTo(Chars, MaxNameLen)

----------------------------------------------------------------------------
(* re.sub(r'[<>:"/\\|?*]', '_', ep_name), re.sub(r'_+', '_', .),           *)
(* .strip('_') or 'episode'                                                *)

ReplaceUnsafe(s) == [i \in 1..Len(s) |-> IF s[i] \in Unsafe THEN "_" ELSE s[i]]

RECURSIVE CollapseUnderscores(_)
CollapseUnderscores(s) ==
    IF Len(s) < 2 THEN s
    ELSE IF s[1] = "_" /\ s[2] = "_" THEN CollapseUnderscores(Tail(s))
    ELSE <<s[1]>> \o CollapseUnderscores(Tail(s))

RECURSIVE LStrip(_)
LStrip(s) == IF s # <<>> /\ s[1] = "_" THEN LStrip(Tail(s)) ELSE s

RECURSIVE RStrip(_)
RStrip(s) ==
    IF s # <<>> /\ s[Len(s)] = "_" THEN RStrip(SubSeq(s, 1, Len(s) - 1)) ELSE s

Strip(s) == RStrip(LStrip(s))

Sanitize(name) ==
    LET stripped == Strip(CollapseUnderscores(ReplaceUnsafe(name)))
    IN  IF stripped = <<>> THEN <<"episode">> ELSE stripped

----------------------------------------------------------------------------
(* Values *)

NoFile  == [size |-> 0, by |-> "absent"]
NoFiles == [mp4 |-> NoFile, mkv |-> NoFile]
Exists(f) == f.by # "absent"

NoBytes == [present |-> FALSE, path |-> "", by |-> "", size |-> 0]
NoName  == [present |-> FALSE, stem |-> <<>>, ext |-> ""]
Msg(kind, detail) == [kind |-> kind, detail |-> detail]
NoResult == [success |-> FALSE, output_bytes |-> NoBytes, filename |-> NoName,
             message |-> Msg("", "")]

\* the dict every failure return builds: output_bytes None, filename None
Failure(kind, detail) ==
    [success |-> FALSE, output_bytes |-> NoBytes, filename |-> NoName,
     message |-> Msg(kind, detail)]

\* the first two strategies listed the other way round
HardMethods_FilterFirst ==
    <<"Subtitles filter", "Dual-style ASS burn", "FFmpeg ASS convert">>

HardMethods == <<"Dual-style ASS burn", "Subtitles filter", "FFmpeg ASS convert">>

\* result of run_ff: None, or a CompletedProcess with returncode and stderr
None == [none |-> TRUE, returncode |-> 0, stderr |-> ""]
Completed(rc, err) == [none |-> FALSE, returncode |-> rc, stderr |-> err]

----------------------------------------------------------------------------
(* The environment's answers *)

Exits   == {"zero", "nonzero", "timeout"}
Stderrs == {"", "stderr tail"}

\* One run of the encode/mux tool on an output path that now holds `old`.  A
\* run that is killed or exits nonzero leaves a file of any size, or leaves the
\* path as it found it; a run that exits zero has written its own output,
\* or has produced nothing at a path that held nothing.
ToolOutcomes(old) ==
    [exit : {"zero"}, stderr : Stderrs, wrote : {TRUE}, size : OutSizes]
    \cup {o \in [exit : {"zero"}, stderr : Stderrs, wrote : {FALSE}, size : {0}] :
            ~Exists(old)}
    \cup [exit : {"nonzero"}, stderr : Stderrs, wrote : {TRUE}, size : OutSizes]
    \cup [exit : {"nonzero"}, stderr : Stderrs, wrote : {FALSE}, size : {0}]
    \cup [exit : {"timeout"}, stderr : {""}, wrote : {TRUE}, size : OutSizes]
    \cup [exit : {"timeout"}, stderr : {""}, wrote : {FALSE}, size : {0}]

\* the subtitle conversion of burn_ffmpeg_conv: exit status, and whether
\* conv.ass exists afterwards
ConvOutcomes == [exit : Exits, exists : BOOLEAN]

\* what parse_srt can return for a payload of that size
ParseCounts(size) == IF size < MinEntryBytes THEN {0} ELSE 0..MaxEntries

\* the same invocation, timing out instead of exiting nonzero
AsTimeout(tool) == [tool EXCEPT !.exit = "timeout", !.stderr = ""]

----------------------------------------------------------------------------
(* process_episode: leaving the function *)

\* the workspace removed on the success path only, not in a finally clause
Return_LeakOnFailure(j, res) ==
    IF res.success
    THEN [j EXCEPT !.pc = "done", !.result = res, !.dir = FALSE, !.fs = NoFiles]
    ELSE [j EXCEPT !.pc = "done", !.result = res]

\* finally: shutil.rmtree(job_dir, ignore_errors=True), then the return
Return(j, res) ==
    [j EXCEPT !.pc = "done", !.result = res, !.dir = FALSE, !.fs = NoFiles]

\* except Exception as ex: return the failure dict with message str(ex)
Raise(j, ex) == Return([j EXCEPT !.exc = TRUE], Failure("exception", ex))

\* def log(msg): if log_fn: log_fn(msg)
log(j, msg) == IF log_fn = "None" THEN j ELSE [j EXCEPT !.log = Append(@, msg)]

\* a call of the sink raises only if there is a sink
SinkRaises(flag) == log_fn # "None" /\ flag

----------------------------------------------------------------------------
(* run_ff and good *)

run_ff(tool) ==
    IF tool.exit = "timeout" THEN None
    ELSE Completed(IF tool.exit = "zero" THEN 0 ELSE 1, tool.stderr)

\* the guard without its size test
good_IgnoresSize(result, file) ==
    /\ ~result.none
    /\ result.returncode = 0
    /\ Exists(file)

\* the guard without its exit-status test
good_IgnoresExit(result, file) ==
    /\ ~result.none
    /\ Exists(file)
    /\ file.size > MinOutputBytes

good(result, file) ==
    /\ ~result.none
    /\ result.returncode = 0
    /\ Exists(file)
    /\ file.size > MinOutputBytes

\* the file at a path after the tool ran on it for strategy `by`
FileAfter(old, tool, by) ==
    IF tool.wrote THEN [size |-> tool.size, by |-> by] ELSE old

\* the world after one encode/mux run writing to `path`
Invoke(j, kind, tool, path, by) ==
    [j EXCEPT !.ext = @ \cup {kind},
              !.fs[path] = FileAfter(@, tool, by)]

----------------------------------------------------------------------------
(* process_episode, step by step.  Each step is a function of the run `j`  *)
(* and of the environment's answers `e` met in that stretch of code.       *)

\* what the guard was handed: no attempt has reached the guard yet
NotSeen == [looked |-> FALSE, none |-> TRUE, returncode |-> 0,
            exists |-> FALSE, size |-> 0]

\* what the guard was handed: the result of run_ff and the file at the path
Seen(result, file) ==
    [looked |-> TRUE, none |-> result.none, returncode |-> result.returncode,
     exists |-> Exists(file), size |-> file.size]

InitJob ==
    [pc |-> "start", dir |-> FALSE, entries |-> -1, safe |-> <<>>,
     methods |-> <<>>, idx |-> 0, success |-> FALSE, last_err |-> "",
     out_path |-> "", out_name |-> NoName, fs |-> NoFiles, log |-> <<>>,
     ext |-> {}, attempts |-> <<>>, seen |-> NotSeen, exc |-> FALSE,
     result |-> NoResult]

\* job_dir = tempfile.mkdtemp(prefix='st_merger_'), before the try block
mkdtemp(j, e) ==
    IF e.raises THEN [j EXCEPT !.pc = "raised", !.exc = TRUE]
    ELSE [j EXCEPT !.pc = "write", !.dir = TRUE]

\* the two open(..., 'wb') / f.write(...) of the payloads
write_inputs(j, e) ==
    IF e.raises THEN Raise(j, "write error")
    ELSE [j EXCEPT !.pc = "validate"]

\* validation without the return on an empty parse
validate_KeepsEmpty(j, e) ==
    IF video_bytes < MinVideoBytes
    THEN Return(j, Failure("Video file too small or corrupt", ""))
    ELSE IF srt_bytes < MinSubBytes
    THEN Return(j, Failure("Subtitle file too small or corrupt", ""))
    ELSE IF e.raises THEN Raise(j, "parse_srt error")
    ELSE LET j1 == [j EXCEPT !.entries = e.n]
         IN  IF SinkRaises(e.sink_trying) THEN Raise(j1, "log_fn error")
             ELSE [log(j1, Msg("Subtitles", "")) EXCEPT !.pc = "probe"]

\* the size checks, parse_srt and the first log call
validate(j, e) ==
    IF video_bytes < MinVideoBytes
    THEN Return(j, Failure("Video file too small or corrupt", ""))
    ELSE IF srt_bytes < MinSubBytes
    THEN Return(j, Failure("Subtitle file too small or corrupt", ""))
    ELSE IF e.raises THEN Raise(j, "parse_srt error")
    ELSE LET j1 == [j EXCEPT !.entries = e.n]
         IN  IF e.n = 0
             THEN Return(j1, Failure("No subtitle entries found", ""))
             ELSE IF SinkRaises(e.sink_trying) THEN Raise(j1, "log_fn error")
             ELSE [log(j1, Msg("Subtitles", "")) EXCEPT !.pc = "probe"]

\* info = get_video_info(v_path), which never raises, and the second log call
probe(j, e) ==
    LET j1 == [j EXCEPT !.ext = @ \cup {"probe"}]
    IN  IF SinkRaises(e.sink_trying) THEN Raise(j1, "log_fn error")
        ELSE [log(j1, Msg("Video", "")) EXCEPT !.pc = "select"]

\* the chain built only when both filters were detected
build_methods_NeedsBoth(f) == IF f.ass /\ f.subtitles THEN HardMethods ELSE <<>>

\* if filters.get('ass') or filters.get('subtitles'): methods += [...]
build_methods(f) == IF f.ass \/ f.subtitles THEN HardMethods ELSE <<>>

\* safe, filters = check_filters(), and the head of either branch
select_chain(j) ==
    LET j1 == [j EXCEPT !.safe = Sanitize(ep_name), !.ext = @ \cup {"filters"}]
    IN  IF merge_type = "hard"
        THEN LET methods == build_methods(filters)
             IN  IF methods = <<>>
                 THEN Return(j1, Failure("No subtitle filters available in FFmpeg", ""))
                 ELSE [j1 EXCEPT !.pc = "hard", !.methods = methods, !.idx = 1,
                                 !.out_path = "mp4",
                                 !.out_name = [present |-> TRUE, stem |-> j1.safe,
                                               ext |-> ".mp4"],
                                 !.success = FALSE, !.last_err = "No methods ran"]
        ELSE [j1 EXCEPT !.pc = "soft_mkv", !.out_path = "", !.out_name = NoName,
                        !.success = FALSE, !.last_err = ""]

----------------------------------------------------------------------------
(* The hard-subtitle strategies.  Each returns the world after it ran, the *)
(* result it returned, and whether it raised.                              *)

Returned(j, result) == [j |-> j, result |-> result, raised |-> FALSE, ex |-> ""]
Raised(j, ex)       == [j |-> j, result |-> None, raised |-> TRUE, ex |-> ex]

burn_ass(j, e) ==
    IF e.raises THEN Raised(j, "create_ass error")
    ELSE IF j.entries = 0 THEN Returned(j, None)
    ELSE Returned(Invoke(j, "encode", e.tool, j.out_path, "Dual-style ASS burn"),
                  run_ff(e.tool))

burn_subtitles(j, e) ==
    Returned(Invoke(j, "encode", e.tool, j.out_path, "Subtitles filter"),
             run_ff(e.tool))

burn_ffmpeg_conv(j, e) ==
    LET j1 == [j EXCEPT !.ext = @ \cup {"convert"}]
    IN  IF ~(e.conv.exit = "zero" /\ e.conv.exists) THEN Returned(j1, None)
        ELSE Returned(Invoke(j1, "encode", e.tool, j.out_path, "FFmpeg ASS convert"),
                      run_ff(e.tool))

mfn(mname, j, e) ==
    CASE mname = "Dual-style ASS burn" -> burn_ass(j, e)
      [] mname = "Subtitles filter"    -> burn_subtitles(j, e)
      [] mname = "FFmpeg ASS convert"  -> burn_ffmpeg_conv(j, e)

----------------------------------------------------------------------------
(* for mname, mfn in methods: one iteration of the hard chain *)

Attempted(j, mname, verdict, ended, seen) ==
    [j EXCEPT !.attempts = Append(@, [m |-> mname, good |-> verdict,
                                      ended |-> ended]),
              !.seen = seen]

\* the loop goes on to the next method, or falls out of the list
next_method(j) ==
    IF j.idx < Len(j.methods) THEN [j EXCEPT !.idx = @ + 1]
    ELSE [j EXCEPT !.pc = "hard_end"]

\* except Exception as ex: last_err = str(ex); log(f"Error in {mname}: {ex}")
hard_except(j, mname, ex, e) ==
    LET j1 == [j EXCEPT !.last_err = ex, !.exc = TRUE]
    IN  IF SinkRaises(e.sink_error) THEN Raise(j1, "log_fn error")
        ELSE next_method(log(j1, Msg("Error in", mname)))

\* the partial output removed only when run_ff returned a process result
hard_rejected_UnlessNone(j, result) ==
    [j EXCEPT !.last_err = IF ~result.none /\ result.stderr # ""
                           THEN result.stderr ELSE "failed silently",
              !.fs[j.out_path] = IF result.none THEN @ ELSE NoFile]

\* last_err = result.stderr[-200:] if result and result.stderr else ...;
\* if os.path.exists(out_path): os.remove(out_path)
hard_rejected(j, result) ==
    [j EXCEPT !.last_err = IF ~result.none /\ result.stderr # ""
                           THEN result.stderr ELSE "failed silently",
              !.fs[j.out_path] = NoFile]

hard_attempt(j, e) ==
    LET mname == j.methods[j.idx]
        s     == mfn(mname, log(j, Msg("Trying", mname)), e)
        seen  == Seen(s.result, s.j.fs[j.out_path])
    IN  IF SinkRaises(e.sink_trying) THEN Raise(j, "log_fn error")
        ELSE IF s.raised
        THEN hard_except(Attempted(s.j, mname, FALSE, "raised", NotSeen), mname,
                         s.ex, e)
        ELSE IF good(s.result, s.j.fs[j.out_path])
        THEN IF SinkRaises(e.sink_success)
             THEN hard_except(Attempted(s.j, mname, TRUE, "raised", seen),
                              mname, "log_fn error", e)
             ELSE [log(Attempted(s.j, mname, TRUE, "accepted", seen),
                       Msg("Success", mname))
                   EXCEPT !.success = TRUE, !.pc = "hard_end"]
        ELSE next_method(hard_rejected(Attempted(s.j, mname, FALSE, "rejected",
                                                 seen),
                                       s.result))

\* if not success: return {... 'All methods failed: ' + last_err[:200]}
hard_end(j) ==
    IF ~j.success THEN Return(j, Failure("All methods failed", j.last_err))
    ELSE [j EXCEPT !.pc = "finalize"]

----------------------------------------------------------------------------
(* The soft-subtitle chain *)

\* r, mkv = soft_mkv(...): the mux writes to <safe>.mkv
soft_mkv(j, e) == Returned(Invoke(j, "mux", e.tool, "mkv", "MKV"), run_ff(e.tool))

\* clean_srt rewrites the subtitle, then the mux writes to <safe>.mp4
soft_mp4(j, e) ==
    IF e.raises THEN Raised(j, "clean_srt error")
    ELSE Returned(Invoke(j, "mux", e.tool, "mp4", "MP4"), run_ff(e.tool))

\* the name the MKV branch gives the output
mkv_name(safe) == [present |-> TRUE, stem |-> safe, ext |-> ".mkv"]

\* the MP4 branch naming its output like the MKV branch
mp4_name_AsMkv(safe) == [present |-> TRUE, stem |-> safe, ext |-> ".mkv"]

\* the name the MP4 branch gives the output
mp4_name(safe) == [present |-> TRUE, stem |-> safe, ext |-> ".mp4"]

\* log("Trying soft sub MKV...") and the first try block
soft_mkv_attempt(j, e) ==
    LET s    == soft_mkv(log(j, Msg("Trying soft sub MKV...", "")), e)
        seen == Seen(s.result, s.j.fs["mkv"])
    IN  IF SinkRaises(e.sink_trying) THEN Raise(j, "log_fn error")
        ELSE IF good(s.result, s.j.fs["mkv"])
        THEN LET j1 == [Attempted(s.j, "MKV", TRUE, "accepted", seen)
                        EXCEPT !.out_path = "mkv", !.out_name = mkv_name(j.safe),
                               !.success = TRUE, !.pc = "soft_end"]
             IN  IF SinkRaises(e.sink_success)
                 THEN [j1 EXCEPT !.last_err = "log_fn error", !.exc = TRUE]
                 ELSE log(j1, Msg("MKV soft sub succeeded", ""))
        ELSE [Attempted(s.j, "MKV", FALSE, "rejected", seen)
              EXCEPT !.last_err = IF ~s.result.none /\ s.result.stderr # ""
                                  THEN s.result.stderr ELSE "mkv failed",
                     !.pc = "soft_mp4"]

\* if not success: log("Trying soft sub MP4...") and the second try block
soft_mp4_attempt(j, e) ==
    LET s    == soft_mp4(log(j, Msg("Trying soft sub MP4...", "")), e)
        seen == Seen(s.result, s.j.fs["mp4"])
    IN  IF SinkRaises(e.sink_trying) THEN Raise(j, "log_fn error")
        ELSE IF s.raised
        THEN [Attempted(s.j, "MP4", FALSE, "raised", NotSeen)
              EXCEPT !.last_err = s.ex, !.exc = TRUE, !.pc = "soft_end"]
        ELSE IF good(s.result, s.j.fs["mp4"])
        THEN LET j1 == [Attempted(s.j, "MP4", TRUE, "accepted", seen)
                        EXCEPT !.out_path = "mp4", !.out_name = mp4_name(j.safe),
                               !.success = TRUE, !.pc = "soft_end"]
             IN  IF SinkRaises(e.sink_success)
                 THEN [j1 EXCEPT !.last_err = "log_fn error", !.exc = TRUE]
                 ELSE log(j1, Msg("MP4 soft sub succeeded", ""))
        ELSE [Attempted(s.j, "MP4", FALSE, "rejected", seen)
              EXCEPT !.last_err = IF ~s.result.none /\ s.result.stderr # ""
                                  THEN s.result.stderr ELSE "mp4 failed",
                     !.pc = "soft_end"]

\* if not success: return {... 'Soft-sub failed: ' + last_err[:200]}
soft_end(j) ==
    IF ~j.success THEN Return(j, Failure("Soft-sub failed", j.last_err))
    ELSE [j EXCEPT !.pc = "finalize"]

----------------------------------------------------------------------------
(* with open(out_path, 'rb') as f: out_bytes = f.read(); log; return *)

read_output(j) ==
    LET f == j.fs[j.out_path]
    IN  [present |-> TRUE, path |-> j.out_path, by |-> f.by, size |-> f.size]

\* the output returned without the log("Done! ...") call
finalize_Silent(j, e) ==
    IF e.raises \/ ~Exists(j.fs[j.out_path]) THEN Raise(j, "read error")
    ELSE Return(j, [success |-> TRUE, output_bytes |-> read_output(j),
                    filename |-> j.out_name, message |-> Msg("Done!", "")])

finalize(j, e) ==
    IF e.raises \/ ~Exists(j.fs[j.out_path]) THEN Raise(j, "read error")
    ELSE IF SinkRaises(e.sink_trying) THEN Raise(j, "log_fn error")
    ELSE Return(log(j, Msg("Done!", "")),
                [success |-> TRUE, output_bytes |-> read_output(j),
                 filename |-> j.out_name, message |-> Msg("Done!", "")])

----------------------------------------------------------------------------
(* create_ass: the parsed script, the language split, the layout *)

\* the module's layout constants: per cent and per mille of the height
CHINESE_MARGIN_V_PCT == 18
GAP_PCT              == 15
CHINESE_FONT_PCT     == 52
ENGLISH_FONT_PCT     == 38

\* a stripped line of subtitle text, by its count of CJK code points and of
\* other characters; a line of none is a line that held only markup
Line(c, o) == [cjk |-> c, other |-> o]
BlankLine  == Line(0, 0)
Lines      == {Line(0, 4), Line(1, 3), Line(1, 4)}

\* the text of an entry: non-empty once stripped, so its first and last
\* lines are not blank
Texts ==
    {<<a>> : a \in Lines}
        \cup {<<a, b>> : a \in Lines, b \in Lines}
        \cup {<<a, BlankLine, b>> : a \in Lines, b \in Lines}

\* start and end of the first entry in milliseconds; the entries follow
\* one another at equal distance
FirstTimes == {<<1500, 3250>>, <<3661250, 3662750>>}
Shift(t, k) == <<t[1] + 2500 * k, t[2] + 2500 * k>>

\* parse_srt: the scripts of at most MaxEntries entries
Entry(t, text) == [start |-> t[1], end |-> t[2], text |-> text]
Scripts ==
    UNION {{[i \in 1..Len(ts) |-> Entry(Shift(t, i - 1), ts[i])] :
                ts \in SeqsUpTo(Texts, MaxEntries)} : t \in FirstTimes}

\* return 'cjk' if cjk / total > 0.2 else 'latin'; 'latin' for no text
detect_language(line) ==
    LET total == line.cjk + line.other
    IN  IF total = 0 THEN "latin"
        ELSE IF 5 * line.cjk > total THEN "cjk" ELSE "latin"

SelectSeq_lang(text, lang) ==
    SelectSeq(text, LAMBDA l : l # BlankLine /\ detect_language(l) = lang)

\* the two buckets of an entry's text, each a sequence of lines
split_cjk_latin(text) ==
    [cjk |-> SelectSeq_lang(text, "cjk"), lat |-> SelectSeq_lang(text, "latin")]

\* h:mm:ss.cc of a time in milliseconds, the centiseconds cut off
format_ass_time(ms) ==
    [h  |-> ms \div 3600000,
     m  |-> (ms % 3600000) \div 60000,
     sc |-> (ms % 60000) \div 1000,
     cs |-> (ms % 1000) \div 10]

Dialogue(s, en, style, text) ==
    [start |-> s, end |-> en, style |-> style, text |-> text]

\* the body of the loop with the English event written first
events_EnglishFirst(e) ==
    LET s  == format_ass_time(e.start)
        en == format_ass_time(e.end)
        b  == split_cjk_latin(e.text)
    IN  IF b.cjk # <<>> /\ b.lat # <<>>
        THEN <<Dialogue(s, en, "English", b.lat), Dialogue(s, en, "Chinese", b.cjk)>>
        ELSE IF b.cjk # <<>> THEN <<Dialogue(s, en, "Chinese", b.cjk)>>
        ELSE <<Dialogue(s, en, "English", IF b.lat # <<>> THEN b.lat ELSE e.text)>>

\* the body of `for e in entries`: the events appended for one entry
events(e) ==
    LET s  == format_ass_time(e.start)
        en == format_ass_time(e.end)
        b  == split_cjk_latin(e.text)
    IN  IF b.cjk # <<>> /\ b.lat # <<>>
        THEN <<Dialogue(s, en, "Chinese", b.cjk), Dialogue(s, en, "English", b.lat)>>
        ELSE IF b.cjk # <<>> THEN <<Dialogue(s, en, "Chinese", b.cjk)>>
        ELSE <<Dialogue(s, en, "English", IF b.lat # <<>> THEN b.lat ELSE e.text)>>

\* the frame sizes and the bottom margins in per cent (the slider's range,
\* 5 to 45) the layout is computed for
Resolutions == {<<160, 120>>, <<640, 360>>, <<854, 480>>, <<1280, 720>>,
                <<1920, 1080>>, <<2560, 1440>>, <<3840, 2160>>}
Percents    == {5, CHINESE_MARGIN_V_PCT, 35, 45}

\* the pairs <<h, pct>> among these whose double-precision product
\* h * (pct / 100.0) lies just below the exact, integral, product
FloatBelow == {<<360, 35>>, <<720, 35>>, <<1440, 35>>}

\* int() of the quotient rounded to the nearest integer instead
int_Nearest(num, den) == (2 * num + den) \div (2 * den)

\* int(x) for the non-negative x = num / den: the fraction is cut off
int(num, den) == num \div den

\* int(h * margin_v_pct), margin_v_pct being the double pct / 100.0
int_margin(h, pct) ==
    IF <<h, pct>> \in FloatBelow THEN int(h * pct, 100) - 1 ELSE int(h * pct, 100)

\* the English margin placed below the Chinese one
eng_mv_Below(cjk_mv, cjk_fs, h) == cjk_mv - cjk_fs - int(h * GAP_PCT, 1000)

\* eng_mv = cjk_mv + cjk_fs + int(h * GAP_PCT)
eng_mv(cjk_mv, cjk_fs, h) == cjk_mv + cjk_fs + int(h * GAP_PCT, 1000)

Max(a, b) == IF a >= b THEN a ELSE b

\* the five values of the header's two Style lines
layout(w, h, pct) ==
    LET cjk_fs == Max(int(h * CHINESE_FONT_PCT, 1000), 26)
        lat_fs == Max(int(h * ENGLISH_FONT_PCT, 1000), 20)
        mlr    == int(w * 6, 100)
        cjk_mv == int_margin(h, pct)
    IN  [cjk_fs |-> cjk_fs, lat_fs |-> lat_fs, mlr |-> mlr, cjk_mv |-> cjk_mv,
         eng_mv |-> eng_mv(cjk_mv, cjk_fs, h)]

NoLayout == [cjk_fs |-> 0, lat_fs |-> 0, mlr |-> 0, cjk_mv |-> 0, eng_mv |-> 0]

\* no call of create_ass under way
IdleAss ==
    [pc |-> "idle", w |-> 1920, h |-> 1080, pct |-> CHINESE_MARGIN_V_PCT,
     entries |-> <<>>, style |-> NoLayout, i |-> 0, dlg |-> <<>>, cut |-> <<>>,
     ret |-> -1]

\* create_ass(srt_path, ass_path, w, h, margin_v_pct) entered, the
\* subtitle parsed
CallAss(w, h, pct, script) ==
    [IdleAss EXCEPT !.pc = "layout", !.w = w, !.h = h, !.pct = pct,
                    !.entries = script]

\* cjk_fs ... eng_mv and the header
compute_layout(a) ==
    [a EXCEPT !.pc = "loop", !.style = layout(a.w, a.h, a.pct)]

\* one iteration of `for e in entries`; `cut` remembers where in dlg the
\* events of each entry end
emit_dialogue(a) ==
    LET dlg == a.dlg \o events(a.entries[a.i + 1])
    IN  [a EXCEPT !.i = @ + 1, !.dlg = dlg, !.cut = Append(@, Len(dlg))]

\* the file written, return len(entries)
write_ass(a) == [a EXCEPT !.pc = "done", !.ret = Len(a.entries)]

----------------------------------------------------------------------------
(* The state machine *)

\* the answers a step can meet; a step reads only the fields it needs
IdleTool == [exit |-> "timeout", stderr |-> "", wrote |-> FALSE, size |-> 0]
OkConv   == [exit |-> "zero", exists |-> TRUE]
Flags    == IF log_fn = "None" THEN {FALSE} ELSE BOOLEAN

\* an answer the code never asks for is left at its default: the tool is
\* not run once the strategy raised or the conversion failed, the success
\* message is logged only after a zero exit, the error message only in an
\* except block, and nothing is asked once the first log call raised
Asked(e) ==
    /\ e.sink_trying =>
          ~e.raises /\ e.tool = IdleTool /\ e.conv = OkConv
          /\ ~e.sink_success /\ ~e.sink_error
    /\ (e.raises \/ ~(e.conv.exit = "zero" /\ e.conv.exists)) => e.tool = IdleTool
    /\ e.raises => e.conv = OkConv
    /\ e.sink_success => e.tool.exit = "zero" /\ e.tool.wrote
    /\ e.sink_error => e.raises \/ e.sink_success

Env(raises, ns, tools, convs, s1, s2, s3) ==
    {e \in [raises : raises, n : ns, tool : tools, conv : convs,
            sink_trying : s1, sink_success : s2, sink_error : s3] : Asked(e)}

\* the twin meets the same answers, but for the one swapped invocation
SwapChoices(e) == IF swapped = 0 /\ e.tool.exit = "nonzero" THEN BOOLEAN ELSE {FALSE}
TwinEnv(e, sw) == IF sw THEN [e EXCEPT !.tool = AsTimeout(@)] ELSE e

Init ==
    /\ video_bytes \in VideoSizes
    /\ srt_bytes \in SrtSizes
    /\ ep_name \in Names
    /\ merge_type \in {"hard", "soft"}
    /\ log_fn \in {"None", "fn"}
    /\ filters \in [subtitles : BOOLEAN, ass : BOOLEAN]
    /\ job = InitJob
    /\ twin = InitJob
    /\ swapped = 0
    /\ ass = IdleAss

Acquire ==
    /\ job.pc = "start"
    /\ \E e \in Env(BOOLEAN, {0}, {IdleTool}, {OkConv}, {FALSE}, {FALSE}, {FALSE}) :
          /\ job' = mkdtemp(job, e)
          /\ twin' = mkdtemp(twin, e)
    /\ UNCHANGED <<inputs, swapped, ass>>

WriteInputs ==
    /\ job.pc = "write"
    /\ \E e \in Env(BOOLEAN, {0}, {IdleTool}, {OkConv}, {FALSE}, {FALSE}, {FALSE}) :
          /\ job' = write_inputs(job, e)
          /\ twin' = write_inputs(twin, e)
    /\ UNCHANGED <<inputs, swapped, ass>>

Validate ==
    /\ job.pc = "validate"
    /\ \E e \in Env(BOOLEAN, ParseCounts(srt_bytes), {IdleTool}, {OkConv},
                   Flags, {FALSE}, {FALSE}) :
          /\ job' = validate(job, e)
          /\ twin' = validate(twin, e)
    /\ UNCHANGED <<inputs, swapped, ass>>

Probe ==
    /\ job.pc = "probe"
    /\ \E e \in Env({FALSE}, {0}, {IdleTool}, {OkConv}, Flags, {FALSE}, {FALSE}) :
          /\ job' = probe(job, e)
          /\ twin' = probe(twin, e)
    /\ UNCHANGED <<inputs, swapped, ass>>

SelectChain ==
    /\ job.pc = "select"
    /\ job' = select_chain(job)
    /\ twin' = select_chain(twin)
    /\ UNCHANGED <<inputs, swapped, ass>>

\* one iteration of the hard loop, for the method the loop is at
BurnAss ==
    /\ job.pc = "hard"
    /\ job.methods[job.idx] = "Dual-style ASS burn"
    /\ \E e \in Env(BOOLEAN, {0}, ToolOutcomes(job.fs[job.out_path]) \cup {IdleTool},
                   {OkConv}, Flags, Flags, Flags) :
          \E sw \in SwapChoices(e) :
              /\ job' = hard_attempt(job, e)
              /\ twin' = hard_attempt(twin, TwinEnv(e, sw))
              /\ swapped' = IF sw THEN job.idx ELSE swapped
    /\ UNCHANGED <<inputs, ass>>

BurnSubtitles ==
    /\ job.pc = "hard"
    /\ job.methods[job.idx] = "Subtitles filter"
    /\ \E e \in Env({FALSE}, {0}, ToolOutcomes(job.fs[job.out_path]) \cup {IdleTool},
                   {OkConv}, Flags, Flags, Flags) :
          \E sw \in SwapChoices(e) :
              /\ job' = hard_attempt(job, e)
              /\ twin' = hard_attempt(twin, TwinEnv(e, sw))
              /\ swapped' = IF sw THEN job.idx ELSE swapped
    /\ UNCHANGED <<inputs, ass>>

BurnFfmpegConv ==
    /\ job.pc = "hard"
    /\ job.methods[job.idx] = "FFmpeg ASS convert"
    /\ \E e \in Env({FALSE}, {0}, ToolOutcomes(job.fs[job.out_path]) \cup {IdleTool},
                   ConvOutcomes, Flags, Flags, Flags) :
          \E sw \in SwapChoices(e) :
              /\ job' = hard_attempt(job, e)
              /\ twin' = hard_attempt(twin, TwinEnv(e, sw))
              /\ swapped' = IF sw THEN job.idx ELSE swapped
    /\ UNCHANGED <<inputs, ass>>

HardEnd ==
    /\ job.pc = "hard_end"
    /\ job' = hard_end(job)
    /\ twin' = hard_end(twin)
    /\ UNCHANGED <<inputs, swapped, ass>>

SoftMkv ==
    /\ job.pc = "soft_mkv"
    /\ \E e \in Env({FALSE}, {0}, ToolOutcomes(job.fs["mkv"]), {OkConv},
                   Flags, Flags, {FALSE}) :
          \E sw \in SwapChoices(e) :
              /\ job' = soft_mkv_attempt(job, e)
              /\ twin' = soft_mkv_attempt(twin, TwinEnv(e, sw))
              /\ swapped' = IF sw THEN 1 ELSE swapped
    /\ UNCHANGED <<inputs, ass>>

SoftMp4 ==
    /\ job.pc = "soft_mp4"
    /\ \E e \in Env(BOOLEAN, {0}, ToolOutcomes(job.fs["mp4"]) \cup {IdleTool}, {OkConv},
                   Flags, Flags, {FALSE}) :
          \E sw \in SwapChoices(e) :
              /\ job' = soft_mp4_attempt(job, e)
              /\ twin' = soft_mp4_attempt(twin, TwinEnv(e, sw))
              /\ swapped' = IF sw THEN 2 ELSE swapped
    /\ UNCHANGED <<inputs, ass>>

SoftEnd ==
    /\ job.pc = "soft_end"
    /\ job' = soft_end(job)
    /\ twin' = soft_end(twin)
    /\ UNCHANGED <<inputs, swapped, ass>>

Finalize ==
    /\ job.pc = "finalize"
    /\ \E e \in Env(BOOLEAN, {0}, {IdleTool}, {OkConv}, Flags, {FALSE}, {FALSE}) :
          /\ job' = finalize(job, e)
          /\ twin' = finalize(twin, e)
    /\ UNCHANGED <<inputs, swapped, ass>>

Next ==
    \/ Acquire
    \/ WriteInputs
    \/ Validate
    \/ Probe
    \/ SelectChain
    \/ BurnAss
    \/ BurnSubtitles
    \/ BurnFfmpegConv
    \/ HardEnd
    \/ SoftMkv
    \/ SoftMp4
    \/ SoftEnd
    \/ Finalize

Spec == Init /\ [][Next]_vars

----------------------------------------------------------------------------
(* create_ass as a state machine.  The layout does not read the script    *)
(* and the loop does not read the layout, so each is run through with the *)
(* other at the function's defaults; no job is under way.                  *)

InitAss ==
    /\ video_bytes = MinVideoBytes
    /\ srt_bytes = MinSubBytes
    /\ ep_name = <<>>
    /\ merge_type = "hard"
    /\ log_fn = "None"
    /\ filters = [subtitles |-> FALSE, ass |-> TRUE]
    /\ job = InitJob
    /\ twin = InitJob
    /\ swapped = 0
    /\ ass \in {CallAss(r[1], r[2], pct, <<>>) : r \in Resolutions, pct \in Percents}
               \cup {CallAss(1920, 1080, CHINESE_MARGIN_V_PCT, script) :
                        script \in Scripts}

ComputeLayout ==
    /\ ass.pc = "layout"
    /\ ass' = compute_layout(ass)
    /\ UNCHANGED <<inputs, job, twin, swapped>>

EmitDialogue ==
    /\ ass.pc = "loop"
    /\ ass.i < Len(ass.entries)
    /\ ass' = emit_dialogue(ass)
    /\ UNCHANGED <<inputs, job, twin, swapped>>

WriteAss ==
    /\ ass.pc = "loop"
    /\ ass.i = Len(ass.entries)
    /\ ass' = write_ass(ass)
    /\ UNCHANGED <<inputs, job, twin, swapped>>

NextAss ==
    \/ ComputeLayout
    \/ EmitDialogue
    \/ WriteAss

SpecAss == InitAss /\ [][NextAss]_vars

----------------------------------------------------------------------------
(* Vocabulary of the properties *)

Done == job.pc = "done"

Kind(j) == j.result.message.kind

\* strategy m was attempted and its output passed good()
PassedGood(j, m) == \E i \in DOMAIN j.attempts : j.attempts[i].m = m /\ j.attempts[i].good

\* strategy m was attempted and the guard turned its output down
Rejected(j, m) ==
    \E i \in DOMAIN j.attempts : j.attempts[i].m = m /\ j.attempts[i].ended = "rejected"

Chain == IF merge_type = "hard" THEN HardMethods ELSE <<"MKV", "MP4">>

IsTrying(m)  == m.kind = "Trying"
IsSuccess(m) == m.kind = "Success"

----------------------------------------------------------------------------
(* C1: once process_episode has returned, with whatever outcome, the       *)
(* scratch workspace it created no longer exists (nor does any file in     *)
(* it); when mkdtemp itself raised, no workspace was ever created.         *)
C1_WorkspaceRemoved ==
    job.pc \in {"done", "raised"} => ~job.dir /\ job.fs = NoFiles

\* a job that ran its chain to the end, failed, and has returned
C1_Witness ==
    /\ Done
    /\ ~job.result.success
    /\ Len(job.attempts) = Len(Chain)
    /\ ~job.dir

(* C2: no exception ever escapes process_episode: every failure of the     *)
(* job, workspace acquisition included, ends in a returned MergeResult     *)
(* with success = false.                                                   *)
C2_NoExceptionEscapes ==
    /\ job.pc # "raised"
    /\ (Done /\ Kind(job) = "exception") => ~job.result.success

(* C3: no partial success: a returned result is either success with bytes  *)
(* and filename present, the bytes being those of an output file larger    *)
(* than 10000 bytes whose attempt passed good(), or failure with neither.  *)
C3_NoPartialSuccess ==
    Done =>
        LET r == job.result
        IN  \/ /\ r.success
               /\ r.output_bytes.present
               /\ r.filename.present
               /\ r.output_bytes.size > MinOutputBytes
               /\ r.output_bytes.path = job.out_path
               /\ PassedGood(job, r.output_bytes.by)
            \/ /\ ~r.success
               /\ ~r.output_bytes.present
               /\ ~r.filename.present

\* a success that came after an earlier strategy had failed
C3_Witness ==
    /\ Done
    /\ job.result.success
    /\ job.result.output_bytes.present
    /\ Len(job.attempts) > 1

(* C4: an undersized video, an undersized subtitle or a subtitle parsing   *)
(* to zero entries makes the job fail before anything external runs: no    *)
(* probe, capability query, conversion, encode or mux, and no strategy.    *)
C4_ValidationBeforeExternal ==
    (video_bytes < MinVideoBytes \/ srt_bytes < MinSubBytes \/ job.entries = 0) =>
        /\ job.ext = {}
        /\ job.attempts = <<>>
        /\ job.pc \in {"start", "write", "validate", "done", "raised"}
        /\ Done => ~job.result.success

\* a payload large enough for both size checks that parsed to no entry
C4_Witness ==
    /\ Done
    /\ video_bytes >= MinVideoBytes
    /\ srt_bytes >= MinSubBytes
    /\ job.entries = 0
    /\ Kind(job) = "No subtitle entries found"

(* C5: both chains are ordered fallbacks with early exit: the attempts     *)
(* follow the chain's fixed order, each strategy at most once and only     *)
(* after every earlier one was attempted, and no strategy is attempted     *)
(* after an attempt whose output passed good().                            *)
C5_OrderedFallback ==
    LET a == job.attempts
    IN  /\ Len(a) <= Len(Chain)
        /\ \A i \in DOMAIN a : a[i].m = Chain[i]
        /\ \A i \in DOMAIN a : i < Len(a) => ~a[i].good

C7_PartialOutputDeleted ==
    (\/ job.pc = "hard" /\ job.idx > 1
     \/ job.pc = "hard_end" /\ ~job.success) => ~Exists(job.fs["mp4"])

(* C8 as stated: two runs of a job that differ only in one encode or mux   *)
(* attempt timing out instead of exiting nonzero stay at the same place,   *)
(* with the same files, attempts and log, and return the same MergeResult. *)
C8_TimeoutSameResult ==
    /\ job.pc = twin.pc /\ job.idx = twin.idx /\ job.fs = twin.fs
    /\ job.attempts = twin.attempts /\ job.log = twin.log
    /\ Done => job.result = twin.result

(* C8 amended: the two runs stay at the same place with the same files,    *)
(* attempts and log, and their results agree on success, output bytes and  *)
(* filename; the messages agree too, except when the chain is exhausted    *)
(* and the swapped attempt was its last: then the run with the nonzero     *)
(* exit reports the tool's stderr tail and the run with the timeout the    *)
(* fixed text for a failure without diagnostics.                           *)
C8_TimeoutSameButDiagnostic ==
    /\ job.pc = twin.pc /\ job.idx = twin.idx /\ job.fs = twin.fs
    /\ job.attempts = twin.attempts /\ job.log = twin.log
    /\ job.success = twin.success /\ job.dir = twin.dir
    /\ Done =>
          /\ job.result.success = twin.result.success
          /\ job.result.output_bytes = twin.result.output_bytes
          /\ job.result.filename = twin.result.filename
          /\ Kind(job) = Kind(twin)
          /\ job.result.message # twin.result.message =>
                /\ Kind(job) \in {"All methods failed", "Soft-sub failed"}
                /\ swapped = Len(job.attempts)
                /\ job.result.message.detail = "stderr tail"
                /\ twin.result.message.detail
                      \in {"failed silently", "mkv failed", "mp4 failed"}

\* an earlier attempt was the swapped one, and the job went on to succeed
C8_Witness ==
    /\ Done
    /\ swapped # 0
    /\ swapped < Len(job.attempts)
    /\ job.result.success
    /\ twin.result.success

(* C9: a hard-mode job that reaches the capability query with neither      *)
(* filter detected ends at once with "No subtitle filters available" and   *)
(* attempts nothing; with at least one filter detected its chain is the    *)
(* three burn strategies in order; a soft-mode job goes on to its MKV mux  *)
(* whatever the capabilities are.                                          *)
C9_CapabilityAbsence ==
    "filters" \in job.ext =>
        /\ (merge_type = "hard" /\ ~filters.ass /\ ~filters.subtitles) =>
              /\ Done
              /\ ~job.result.success
              /\ Kind(job) = "No subtitle filters available in FFmpeg"
              /\ job.methods = <<>>
              /\ job.attempts = <<>>
              /\ job.ext \cap {"convert", "encode", "mux"} = {}
        /\ (merge_type = "hard" /\ (filters.ass \/ filters.subtitles)) =>
              /\ job.methods = << "Dual-style ASS burn", "Subtitles filter",
                                  "FFmpeg ASS convert" >>
              /\ Kind(job) # "No subtitle filters available in FFmpeg"
              /\ job.attempts = <<>> => (job.pc = "hard" \/ (Done /\ job.exc))
        /\ merge_type = "soft" =>
              /\ Kind(job) # "No subtitle filters available in FFmpeg"
              /\ job.attempts = <<>> => (job.pc = "soft_mkv" \/ (Done /\ job.exc))

\* hard mode, validation passed, no filter detected
C9_Witness ==
    /\ Done
    /\ merge_type = "hard"
    /\ ~filters.ass /\ ~filters.subtitles
    /\ "filters" \in job.ext
    /\ Kind(job) = "No subtitle filters available in FFmpeg"

(* C10: a successful result is named after the sanitised display name      *)
(* (no unsafe character, no repeated, leading or trailing underscore,      *)
(* "episode" when nothing is left): <name>.mp4 in hard mode; in soft mode  *)
(* <name>.mkv exactly when the MKV mux was the accepted strategy and       *)
(* <name>.mp4 exactly when the MP4 mux was; and the bytes returned are     *)
(* those of the file that strategy wrote at its own path.                  *)
C10_OutputNaming ==
    (Done /\ job.result.success) =>
        LET r    == job.result
            stem == r.filename.stem
            last == job.attempts[Len(job.attempts)]
        IN  /\ r.filename.present
            /\ stem = Sanitize(ep_name)
            /\ stem # <<>>
            /\ \A i \in DOMAIN stem : stem[i] \notin Unsafe
            /\ stem[1] # "_" /\ stem[Len(stem)] # "_"
            /\ \A i \in 1..(Len(stem) - 1) : ~(stem[i] = "_" /\ stem[i + 1] = "_")
            /\ (\A i \in DOMAIN ep_name : ep_name[i] = "a") /\ ep_name # <<>>
                  => stem = ep_name
            /\ merge_type = "hard" =>
                  /\ r.filename.ext = ".mp4"
                  /\ r.output_bytes.path = "mp4"
                  /\ last.good /\ r.output_bytes.by = last.m
            /\ merge_type = "soft" =>
                  /\ r.filename.ext = ".mkv" <=> PassedGood(job, "MKV")
                  /\ r.filename.ext = ".mp4" <=> PassedGood(job, "MP4")
                  /\ PassedGood(job, "MKV") =>
                        r.output_bytes.path = "mkv" /\ r.output_bytes.by = "MKV"
                  /\ PassedGood(job, "MP4") =>
                        r.output_bytes.path = "mp4" /\ r.output_bytes.by = "MP4"

\* soft mode, the MKV mux failed and the MP4 mux was accepted, and the
\* display name needed sanitising
C10_Witness ==
    /\ Done
    /\ job.result.success
    /\ merge_type = "soft"
    /\ job.result.filename.ext = ".mp4"
    /\ job.result.filename.stem # ep_name

----------------------------------------------------------------------------
(* C11: an attempt is accepted exactly when the tool returned with exit    *)
(* status zero, its output file exists and the file is larger than         *)
(* MinOutputBytes; a job that reports success does so on the strength of   *)
(* the last attempt, which met all three; an exit status of zero with a    *)
(* missing or too-small output is turned down like any other failure.      *)

LastAttempt == job.attempts[Len(job.attempts)]

AllThree(seen) ==
    /\ seen.looked
    /\ ~seen.none
    /\ seen.returncode = 0
    /\ seen.exists
    /\ seen.size > MinOutputBytes

C11_AcceptanceGuard ==
    /\ job.attempts # <<>> /\ job.seen.looked =>
            (LastAttempt.good <=> AllThree(job.seen))
    /\ job.attempts # <<>> /\ ~job.seen.looked =>
            ~LastAttempt.good /\ LastAttempt.ended = "raised"
    /\ job.success \/ job.result.success =>
            /\ job.attempts # <<>>
            /\ LastAttempt.ended = "accepted"
            /\ AllThree(job.seen)
    /\ /\ job.attempts # <<>>
       /\ job.seen.looked /\ ~job.seen.none /\ job.seen.returncode = 0
       /\ ~job.seen.exists \/ job.seen.size <= MinOutputBytes
       => /\ LastAttempt.ended = "rejected"
          /\ ~job.success
          /\ ~job.result.success

\* the tool exited with status zero and left a file of exactly
\* MinOutputBytes bytes; the attempt was turned down and the job failed
C11_Witness ==
    /\ Done
    /\ ~job.result.success
    /\ job.attempts # <<>>
    /\ job.seen.looked /\ ~job.seen.none /\ job.seen.returncode = 0
    /\ job.seen.exists /\ job.seen.size = MinOutputBytes
    /\ LastAttempt.ended = "rejected"

----------------------------------------------------------------------------
(* C12: create_ass returns the number of parsed entries, and every entry   *)
(* the loop has passed left one or two dialogue events: a Chinese and then *)
(* an English event with the same start and end when both language         *)
(* buckets are non-empty, one event in the matching style when exactly one *)
(* bucket is non-empty, and one English event when both are empty.         *)

\* the dialogue events written for the k-th entry
EventsOf(k) ==
    SubSeq(ass.dlg, IF k = 1 THEN 1 ELSE ass.cut[k - 1] + 1, ass.cut[k])

C12_GeneratorCompleteness ==
    /\ ass.pc = "done" => ass.ret = Len(ass.entries) /\ ass.i = Len(ass.entries)
    /\ Len(ass.cut) = ass.i
    /\ \A k \in 1..ass.i :
          LET e   == ass.entries[k]
              ev  == EventsOf(k)
              b   == split_cjk_latin(e.text)
              one == Len(ev) = 1
                       /\ ev[1].start = format_ass_time(e.start)
                       /\ ev[1].end = format_ass_time(e.end)
          IN  /\ Len(ev) \in {1, 2}
              /\ b.cjk # <<>> /\ b.lat # <<>> =>
                    /\ Len(ev) = 2
                    /\ ev[1].style = "Chinese" /\ ev[1].text = b.cjk
                    /\ ev[2].style = "English" /\ ev[2].text = b.lat
                    /\ ev[1].start = format_ass_time(e.start)
                    /\ ev[1].end = format_ass_time(e.end)
                    /\ ev[2].start = ev[1].start /\ ev[2].end = ev[1].end
              /\ b.cjk # <<>> /\ b.lat = <<>> =>
                    one /\ ev[1].style = "Chinese" /\ ev[1].text = b.cjk
              /\ b.cjk = <<>> /\ b.lat # <<>> =>
                    one /\ ev[1].style = "English" /\ ev[1].text = b.lat
              /\ b.cjk = <<>> /\ b.lat = <<>> =>
                    one /\ ev[1].style = "English"

\* create_ass has returned for a script of MaxEntries entries or more, one
\* of them bilingual (two events) and one of them in one language only
C12_Witness ==
    /\ ass.pc = "done"
    /\ ass.ret >= MaxEntries
    /\ \E k \in 1..ass.i : Len(EventsOf(k)) = 2
    /\ \E k \in 1..ass.i : Len(EventsOf(k)) = 1 /\ EventsOf(k)[1].style = "Chinese"
    /\ Len(ass.dlg) > ass.ret

----------------------------------------------------------------------------
(* C13: for every frame size, the 1920x1080 default included, and every    *)
(* bottom margin from 5 to 45 per cent of the height, the vertical margin  *)
(* of the English style is strictly greater than that of the Chinese       *)
(* style, and both are non-negative integers.                              *)

LayoutDone == ass.pc \in {"loop", "done"}

C13_LayoutMonotonic ==
    LayoutDone =>
        /\ ass.pct \in 5..45
        /\ ass.style.cjk_mv \in Nat
        /\ ass.style.eng_mv \in Nat
        /\ ass.style.eng_mv > ass.style.cjk_mv

\* the layout of the smallest frame at the smallest margin, where the
\* Chinese font size is its floor of 26 and the gap is one pixel
C13_Witness ==
    /\ LayoutDone
    /\ ass.h = 120
    /\ ass.pct = 5
    /\ ass.style.cjk_fs = 26
    /\ ass.style.eng_mv = ass.style.cjk_mv + 27

----------------------------------------------------------------------------
(* C14: the layout values of the header.  As first stated: each is the     *)
(* product rounded to the nearest integer, cjk_fs = max(round(h * 0.052),  *)
(* 26), lat_fs = max(round(h * 0.038), 20), mlr = round(w * 0.06),         *)
(* cjk_mv = round(h * mv), eng_mv = cjk_mv + cjk_fs + round(h * 0.015).    *)
(* As it holds: each product is cut off to its integer part instead, the   *)
(* product h * mv being the double-precision one.                          *)

Abs(x) == IF x < 0 THEN -x ELSE x

\* q is an integer nearest to num / den (either neighbour at a tie)
IsNearest(q, num, den) == 2 * Abs(q * den - num) <= den

\* q is the integer part of the non-negative num / den
IsCut(q, num, den) == q * den <= num /\ num < (q + 1) * den

Candidates(h) == 0..(h + 1)

\* C14 as first stated: rounding to the nearest integer
C14_RoundedLayout ==
    LayoutDone =>
        LET st == ass.style
        IN  /\ \E q \in Candidates(ass.h) :
                  IsNearest(q, ass.h * CHINESE_FONT_PCT, 1000) /\ st.cjk_fs = Max(q, 26)
            /\ \E q \in Candidates(ass.h) :
                  IsNearest(q, ass.h * ENGLISH_FONT_PCT, 1000) /\ st.lat_fs = Max(q, 20)
            /\ IsNearest(st.mlr, ass.w * 6, 100)
            /\ IsNearest(st.cjk_mv, ass.h * ass.pct, 100)
            /\ \E q \in Candidates(ass.h) :
                  IsNearest(q, ass.h * GAP_PCT, 1000)
                      /\ st.eng_mv = st.cjk_mv + st.cjk_fs + q

\* C14 as it holds: the integer part of each product; where the double
\* h * mv lies just below an integral exact product, one less than that
C14_TruncatedLayout ==
    LayoutDone =>
        LET st == ass.style
        IN  /\ \E q \in Candidates(ass.h) :
                  IsCut(q, ass.h * CHINESE_FONT_PCT, 1000) /\ st.cjk_fs = Max(q, 26)
            /\ \E q \in Candidates(ass.h) :
                  IsCut(q, ass.h * ENGLISH_FONT_PCT, 1000) /\ st.lat_fs = Max(q, 20)
            /\ IsCut(st.mlr, ass.w * 6, 100)
            /\ <<ass.h, ass.pct>> \notin FloatBelow =>
                  IsCut(st.cjk_mv, ass.h * ass.pct, 100)
            /\ <<ass.h, ass.pct>> \in FloatBelow =>
                  (st.cjk_mv + 1) * 100 = ass.h * ass.pct
            /\ \E q \in Candidates(ass.h) :
                  IsCut(q, ass.h * GAP_PCT, 1000)
                      /\ st.eng_mv = st.cjk_mv + st.cjk_fs + q

\* a 1280x720 frame at a margin of 35 per cent: 720 * 0.015 = 10.8 gives a
\* gap of 10, 720 * 0.052 = 37.44 a font size of 37, and the double
\* 720 * 0.35 = 251.99999999999997 a margin of 251
C14_Witness ==
    /\ LayoutDone
    /\ ass.h = 720
    /\ ass.pct = 35
    /\ ass.style.cjk_fs = 37
    /\ ass.style.cjk_mv = 251
    /\ ass.style.eng_mv = 251 + 37 + 10

----------------------------------------------------------------------------
(* C15: the messages handed to a supplied log sink.  As first stated: the  *)
(* entry count, the video dimensions, one message per strategy before it   *)
(* runs, and a final-outcome message, which every job past validation      *)
(* delivers before it returns, in success and in failure alike.  As it     *)
(* holds: the same order, but the final-outcome message is delivered by a  *)
(* job that succeeds only; a job that fails returns with the message of    *)
(* its last attempt as the last one delivered.                             *)

PastValidation == job.entries >= 1

IsStart(m) ==
    m.kind \in {"Trying", "Trying soft sub MKV...", "Trying soft sub MP4..."}

\* the strategy an attempt-start message announces
StartName(m) ==
    CASE m.kind = "Trying"                 -> m.detail
      [] m.kind = "Trying soft sub MKV..." -> "MKV"
      [] m.kind = "Trying soft sub MP4..." -> "MP4"

IsFinal(m) == m.kind = "Done!"

\* the checkpoint a message belongs to
Rank(m) ==
    CASE m.kind = "Subtitles" -> 1
      [] m.kind = "Video"     -> 2
      [] IsFinal(m)           -> 4
      [] OTHER                -> 3

\* entry count, then dimensions, then the attempts, then the outcome; each
\* attempt announced before it runs, its own outcome right after it
CheckpointOrder ==
    LET L      == job.log
        Starts == SelectSeq(L, IsStart)
    IN  /\ \A i, k \in DOMAIN L :
              i < k => /\ Rank(L[i]) <= Rank(L[k])
                       /\ Rank(L[i]) # 3 => Rank(L[i]) < Rank(L[k])
        /\ L # <<>> => L[1].kind = "Subtitles"
        /\ Len(L) >= 2 => L[2].kind = "Video"
        /\ Len(Starts) = Len(job.attempts)
        /\ \A k \in DOMAIN Starts : StartName(Starts[k]) = job.attempts[k].m
        /\ \A i \in DOMAIN L :
              /\ L[i].kind \in {"Success", "Error in"} =>
                    i > 1 /\ L[i - 1].kind = "Trying" /\ L[i - 1].detail = L[i].detail
              /\ L[i].kind = "MKV soft sub succeeded" =>
                    i > 1 /\ L[i - 1].kind = "Trying soft sub MKV..."
              /\ L[i].kind = "MP4 soft sub succeeded" =>
                    i > 1 /\ L[i - 1].kind = "Trying soft sub MP4..."

\* C15 as first stated: every job past validation that returns a result
\* has delivered a final-outcome message, the last of its messages
C15_FinalOutcomeAlways ==
    log_fn = "fn" =>
        /\ CheckpointOrder
        /\ Done /\ PastValidation /\ ~job.exc =>
              job.log # <<>> /\ IsFinal(job.log[Len(job.log)])

\* C15 as it holds: the final-outcome message is the last message of a job
\* that succeeds and is missing from a job that fails
C15_FinalOutcomeOnSuccess ==
    /\ log_fn = "None" => job.log = <<>>
    /\ log_fn = "fn" =>
          /\ CheckpointOrder
          /\ job.log # <<>> => PastValidation
          /\ Done /\ job.result.success =>
                job.log # <<>> /\ IsFinal(job.log[Len(job.log)])
          /\ (\E i \in DOMAIN job.log : IsFinal(job.log[i])) =>
                Done /\ job.result.success
          /\ Done /\ PastValidation /\ ~job.exc /\ ~job.result.success
                /\ job.attempts # <<>> =>
                IsStart(job.log[Len(job.log)])

\* with a sink supplied, all three hard strategies were announced and
\* turned down, and the job returned its failure without a final message
C15_Witness ==
    /\ Done
    /\ log_fn = "fn"
    /\ PastValidation
    /\ ~job.exc
    /\ ~job.result.success
    /\ Len(job.attempts) = 3
    /\ Len(job.log) = 5
    /\ IsStart(job.log[5])

----------------------------------------------------------------------------
(* C16: when an attempt is about to begin, no file exists at the path its  *)
(* guard will inspect (the one output path of the hard chain, the .mkv and *)
(* the .mp4 path of the soft chain), so that the output a job returns was  *)
(* written by the invocation of the strategy whose attempt was accepted.   *)

\* the path the guard of the attempt about to begin will inspect
GuardPath ==
    CASE job.pc = "hard"     -> job.out_path
      [] job.pc = "soft_mkv" -> "mkv"
      [] job.pc = "soft_mp4" -> "mp4"

AttemptBegins == job.pc \in {"hard", "soft_mkv", "soft_mp4"}

OwnOutputReturned ==
    Done /\ job.result.success =>
        /\ LastAttempt.ended = "accepted"
        /\ job.result.output_bytes.by = LastAttempt.m

C16_NoStaleOutput ==
    /\ AttemptBegins => ~Exists(job.fs[GuardPath])
    /\ OwnOutputReturned

====
